---- MODULE Spec2Model ----
(***************************************************************************)
(* Model of array_try_map: ArrayExt::try_map and ArrayExt::map2 on [T; N]. *)
(*                                                                         *)
(* One call is modelled statement by statement: the Guard over the         *)
(* MaybeUninit output array, the zipped loop over the consumed source      *)
(* array and the output slots, the transform f (a FnMut that may return    *)
(* Ok, return Err, or panic), and the three exits: forget + transmute_copy *)
(* on success, `return Err(err)` on failure, unwinding on panic.  Scope    *)
(* exit drops the loop's iterator first and the guard second.              *)
(*                                                                         *)
(* Indices are 0-based as in the source; the TLA+ sequences that hold the  *)
(* arrays are 1-based, so source index i is source[i + 1].                 *)
(***************************************************************************)
EXTENDS Integers, Sequences, FiniteSets, TLC

\* ---------------------------------------------------------------- bounds
\* Largest array length N explored.
MaxN == 3
\* Number of consecutive calls explored in one behaviour.
MaxCalls == 2

\* The element values of the source arrays: those of the documented examples
\* ([1, 2, 3]).  try_map is generic in T and never inspects an element.
SrcVals == {1, 2, 3}

\* ------------------------------------------------------------ the state
VARIABLES
    pc,            \* position in the current call
    via,           \* "try_map" or "map2": the method the caller invoked
    N,             \* the const generic N of this call
    source,        \* `self`: the source array, as given to the call
    alive_start,   \* array::IntoIter: index of the next element not yet moved out
    dst_pos,       \* slice::IterMut over `dst`: index of the next slot handed out
    slot,          \* the loop variable `dst`: index of the slot of this iteration
    arg,           \* the loop variable `src`: the element moved out for this iteration
    srcMoved,      \* per source index: times the element was moved into f
    srcDropped,    \* per source index: times the element was dropped unprocessed
    dst,           \* the MaybeUninit array: per slot [init, val]
    initialized,   \* guard.initialized
    guardAlive,    \* the guard is a live local (not forgotten, not yet dropped)
    guardRan,      \* Guard::drop ran in this call
    guardDropped,  \* the slots Guard::drop passed to drop_in_place
    uninitDropped, \* the slots dropped although they held no value
    temp,          \* the transform's own mutable state: invocations so far
    elem,          \* the value f returned Ok for this iteration, before the write
    fLog,          \* one record per invocation of f: [idx, arg, kind, val]
    exit,          \* the early exit in progress: [kind, err]
    result,        \* what the caller gets: [kind, arr, err]
    resultHeld,    \* the caller still owns the returned array
    dropCount,     \* per output value (named by the invocation that made it): times destroyed
    live,          \* live output values in the whole program (as COUNTER in the tests)
    liveAtStart,   \* `live` when the current call began
    assertFailed,  \* debug_assert!(self.initialized <= N) failed in Guard::drop
    calls          \* calls begun so far

vars == << pc, via, N, source, alive_start, dst_pos, slot, arg, srcMoved, srcDropped,
           dst, initialized, guardAlive, guardRan, guardDropped, uninitDropped,
           temp, elem, fLog, exit, result, resultHeld, dropCount, live,
           liveAtStart, assertFailed, calls >>

\* A value produced by the transform: f(arg) at its temp-th invocation.  Two
\* values are the same object exactly when they come from the same invocation.
Val(a, t) == [arg |-> a, temp |-> t]
NoVal == Val(0, 0)

\* MaybeUninit<U>: a slot that holds no value, and a slot holding v.
Uninit == [init |-> FALSE, val |-> NoVal]
Written(v) == [init |-> TRUE, val |-> v]

NoExit == [kind |-> "none", err |-> NoVal]
NoResult == [kind |-> "none", arr |-> << >>, err |-> NoVal]

\* All arrays [T; n] over SrcVals.
Arrays(n) == [1..n -> SrcVals]

Zeros(n) == [i \in 1..n |-> 0]

\* -------------------------------------------------------- drop machinery
\* The slice Guard::drop builds: slice_from_raw_parts_mut(self.dst, self.initialized).
GuardSlice_Short(init) == 0..(init - 2)
GuardSlice_Long(init) == 0..init
GuardSlice(init) == 0..(init - 1)

\* drop_in_place on a set of slots of `slots`: every slot that holds a value has
\* that value destroyed once more.
DropCountAfter(dc, slots, S) ==
    [t \in DOMAIN dc |->
        dc[t] + Cardinality({s \in S : s + 1 \in DOMAIN slots
                                      /\ slots[s + 1].init
                                      /\ slots[s + 1].val.temp = t})]

LiveAfter(l, slots, S) ==
    l - Cardinality({s \in S : s + 1 \in DOMAIN slots /\ slots[s + 1].init})

\* Slots of S that hold no value (or lie outside the array): dropping them is
\* a read of uninitialized memory.
UninitIn(slots, S) ==
    {s \in S : ~(s + 1 \in DOMAIN slots /\ slots[s + 1].init)}

\* array::IntoIter::drop: the elements not yet moved out, alive_start..N-1.
Remaining_Off(start, n) == (start - 1)..(n - 1)

Remaining(start, n) == start..(n - 1)

SrcDroppedAfter(sd, S) ==
    [i \in DOMAIN sd |-> IF (i - 1) \in S THEN sd[i] + 1 ELSE sd[i]]

\* ------------------------------------------------------------------ Init
Init ==
    /\ pc = "idle"
    /\ via = "try_map"
    /\ N = 0
    /\ source = << >>
    /\ alive_start = 0
    /\ dst_pos = 0
    /\ slot = 0
    /\ arg = 0
    /\ srcMoved = << >>
    /\ srcDropped = << >>
    /\ dst = << >>
    /\ initialized = 0
    /\ guardAlive = FALSE
    /\ guardRan = FALSE
    /\ guardDropped = {}
    /\ uninitDropped = {}
    /\ temp = 0
    /\ elem = NoVal
    /\ fLog = << >>
    /\ exit = NoExit
    /\ result = NoResult
    /\ resultHeld = FALSE
    /\ dropCount = << >>
    /\ live = 0
    /\ liveAtStart = 0
    /\ assertFailed = FALSE
    /\ calls = 0

\* Variable groups, for UNCHANGED.
callVars == << via, N, source, liveAtStart, calls >>
iterVars == << alive_start, dst_pos, slot, arg, srcMoved >>
guardVars == << guardAlive, guardRan, guardDropped, uninitDropped, assertFailed >>
heapVars == << dropCount, live >>

\* --------------------------------------------------------------- try_map
\* The call begins: `dst` is uninit_array::<N>(), the guard is created with
\* initialized = 0, and the zipped iterator is built over `self` and `&mut dst`.
Begin_SharedCounter(n, src, v) ==
    /\ pc = "idle"
    /\ calls < MaxCalls
    /\ calls' = calls + 1
    /\ via' = v
    /\ N' = n
    /\ source' = src
    /\ alive_start' = 0
    /\ dst_pos' = 0
    /\ slot' = 0
    /\ arg' = 0
    /\ srcMoved' = Zeros(n)
    /\ srcDropped' = Zeros(n)
    /\ dst' = [i \in 1..n |-> Uninit]
    /\ initialized' = calls
    /\ guardAlive' = TRUE
    /\ guardRan' = FALSE
    /\ guardDropped' = {}
    /\ uninitDropped' = {}
    /\ assertFailed' = FALSE
    /\ temp' = 0
    /\ elem' = NoVal
    /\ fLog' = << >>
    /\ exit' = NoExit
    /\ result' = NoResult
    /\ resultHeld' = FALSE
    /\ dropCount' = Zeros(n)
    /\ liveAtStart' = live
    /\ pc' = "loop"
    /\ UNCHANGED live

Begin(n, src, v) ==
    /\ pc = "idle"
    /\ calls < MaxCalls
    /\ calls' = calls + 1
    /\ via' = v
    /\ N' = n
    /\ source' = src
    /\ alive_start' = 0
    /\ dst_pos' = 0
    /\ slot' = 0
    /\ arg' = 0
    /\ srcMoved' = Zeros(n)
    /\ srcDropped' = Zeros(n)
    /\ dst' = [i \in 1..n |-> Uninit]
    /\ initialized' = 0
    /\ guardAlive' = TRUE
    /\ guardRan' = FALSE
    /\ guardDropped' = {}
    /\ uninitDropped' = {}
    /\ assertFailed' = FALSE
    /\ temp' = 0
    /\ elem' = NoVal
    /\ fLog' = << >>
    /\ exit' = NoExit
    /\ result' = NoResult
    /\ resultHeld' = FALSE
    /\ dropCount' = Zeros(n)
    /\ liveAtStart' = live
    /\ pc' = "loop"
    /\ UNCHANGED live

\* Zip::next returns Some((src, dst)): the next source element is moved out of
\* the IntoIter, the next slot is borrowed, and f(src) is entered.
LoopNext_Back ==
    /\ pc = "loop"
    /\ alive_start < N
    /\ arg' = source[N - alive_start]
    /\ srcMoved' = [srcMoved EXCEPT ![N - alive_start] = @ + 1]
    /\ fLog' = Append(fLog, [idx |-> N - 1 - alive_start, arg |-> source[N - alive_start],
                             kind |-> "Running", val |-> NoVal])
    /\ alive_start' = alive_start + 1
    /\ slot' = dst_pos
    /\ dst_pos' = dst_pos + 1
    /\ pc' = "in_f"
    /\ UNCHANGED << callVars, guardVars, heapVars, srcDropped, dst, initialized,
                    temp, elem, exit, result, resultHeld >>

LoopNext_DoWhile ==
    /\ pc = "loop"
    /\ alive_start < N \/ alive_start = 0
    /\ LET a == IF alive_start + 1 \in DOMAIN source THEN source[alive_start + 1] ELSE 0
       IN  /\ arg' = a
           /\ fLog' = Append(fLog, [idx |-> alive_start, arg |-> a,
                                    kind |-> "Running", val |-> NoVal])
    /\ srcMoved' = [i \in DOMAIN srcMoved |->
                       IF i = alive_start + 1 THEN srcMoved[i] + 1 ELSE srcMoved[i]]
    /\ alive_start' = alive_start + 1
    /\ slot' = dst_pos
    /\ dst_pos' = dst_pos + 1
    /\ pc' = "in_f"
    /\ UNCHANGED << callVars, guardVars, heapVars, srcDropped, dst, initialized,
                    temp, elem, exit, result, resultHeld >>

LoopNext ==
    /\ pc = "loop"
    /\ alive_start < N
    /\ arg' = source[alive_start + 1]
    /\ srcMoved' = [srcMoved EXCEPT ![alive_start + 1] = @ + 1]
    /\ fLog' = Append(fLog, [idx |-> alive_start, arg |-> source[alive_start + 1],
                             kind |-> "Running", val |-> NoVal])
    /\ alive_start' = alive_start + 1
    /\ slot' = dst_pos
    /\ dst_pos' = dst_pos + 1
    /\ pc' = "in_f"
    /\ UNCHANGED << callVars, guardVars, heapVars, srcDropped, dst, initialized,
                    temp, elem, exit, result, resultHeld >>

\* Zip::next returns None: the loop ends and its iterator is dropped, with
\* whatever source elements it still holds.
LoopEnd_Never ==
    /\ pc = "loop"
    /\ alive_start > N
    /\ srcDropped' = SrcDroppedAfter(srcDropped, Remaining(alive_start, N))
    /\ pc' = "forget"
    /\ UNCHANGED << callVars, iterVars, guardVars, heapVars, dst, initialized,
                    temp, elem, fLog, exit, result, resultHeld >>

LoopEnd_Early ==
    /\ pc = "loop"
    /\ ~(alive_start < N - 1)
    /\ srcDropped' = SrcDroppedAfter(srcDropped, Remaining(alive_start, N))
    /\ pc' = "forget"
    /\ UNCHANGED << callVars, iterVars, guardVars, heapVars, dst, initialized,
                    temp, elem, fLog, exit, result, resultHeld >>

LoopEnd ==
    /\ pc = "loop"
    /\ ~(alive_start < N)
    /\ srcDropped' = SrcDroppedAfter(srcDropped, Remaining(alive_start, N))
    /\ pc' = "forget"
    /\ UNCHANGED << callVars, iterVars, guardVars, heapVars, dst, initialized,
                    temp, elem, fLog, exit, result, resultHeld >>

\* The log entry of the invocation in progress, completed with its outcome.
Returned(log, k, v) ==
    [log EXCEPT ![Len(log)] = [@ EXCEPT !.kind = k, !.val = v]]

\* f(src) returns Ok(elem): a new output value exists.
FReturnsOk ==
    /\ pc = "in_f"
    /\ temp' = temp + 1
    /\ elem' = Val(arg, temp + 1)
    /\ fLog' = Returned(fLog, "Ok", Val(arg, temp + 1))
    /\ live' = live + 1
    /\ pc' = "write"
    /\ UNCHANGED << callVars, iterVars, guardVars, srcDropped, dst, initialized,
                    exit, result, resultHeld, dropCount >>

\* f(src) returns Err(err): `Err(err) => return Err(err)`.  Only try_map's own
\* callers can pass such an f: map2 wraps f as |src| Ok(f(src)) with E = !.
FReturnsErr_Continue ==
    /\ pc = "in_f"
    /\ via = "try_map"
    /\ temp' = temp + 1
    /\ fLog' = Returned(fLog, "Err", Val(arg, temp + 1))
    /\ pc' = "loop"
    /\ UNCHANGED << callVars, iterVars, guardVars, heapVars, srcDropped, dst,
                    initialized, elem, exit, result, resultHeld >>

FReturnsErr_Break ==
    /\ pc = "in_f"
    /\ via = "try_map"
    /\ temp' = temp + 1
    /\ fLog' = Returned(fLog, "Err", Val(arg, temp + 1))
    /\ srcDropped' = SrcDroppedAfter(srcDropped, Remaining(alive_start, N))
    /\ pc' = "forget"
    /\ UNCHANGED << callVars, iterVars, guardVars, heapVars, dst,
                    initialized, elem, exit, result, resultHeld >>

FReturnsErr_AnyVia ==
    /\ pc = "in_f"
    /\ temp' = temp + 1
    /\ fLog' = Returned(fLog, "Err", Val(arg, temp + 1))
    /\ exit' = [kind |-> "Err", err |-> Val(arg, temp + 1)]
    /\ pc' = "drop_iter"
    /\ UNCHANGED << callVars, iterVars, guardVars, heapVars, srcDropped, dst,
                    initialized, elem, result, resultHeld >>

FReturnsErr ==
    /\ pc = "in_f"
    /\ via = "try_map"
    /\ temp' = temp + 1
    /\ fLog' = Returned(fLog, "Err", Val(arg, temp + 1))
    /\ exit' = [kind |-> "Err", err |-> Val(arg, temp + 1)]
    /\ pc' = "drop_iter"
    /\ UNCHANGED << callVars, iterVars, guardVars, heapVars, srcDropped, dst,
                    initialized, elem, result, resultHeld >>

\* f(src) panics: the stack unwinds through try_map.
FPanics_Caught ==
    /\ pc = "in_f"
    /\ temp' = temp + 1
    /\ fLog' = Returned(fLog, "Panic", Val(arg, temp + 1))
    /\ exit' = [kind |-> "Err", err |-> Val(arg, temp + 1)]
    /\ pc' = "drop_iter"
    /\ UNCHANGED << callVars, iterVars, guardVars, heapVars, srcDropped, dst,
                    initialized, elem, result, resultHeld >>

FPanics ==
    /\ pc = "in_f"
    /\ temp' = temp + 1
    /\ fLog' = Returned(fLog, "Panic", Val(arg, temp + 1))
    /\ exit' = [kind |-> "Unwind", err |-> NoVal]
    /\ pc' = "drop_iter"
    /\ UNCHANGED << callVars, iterVars, guardVars, heapVars, srcDropped, dst,
                    initialized, elem, result, resultHeld >>

\* dst.write(elem): the slot is overwritten without dropping what it held.
Write_Reversed ==
    /\ pc = "write"
    /\ dst' = [dst EXCEPT ![N - slot] = Written(elem)]
    /\ pc' = "incr"
    /\ UNCHANGED << callVars, iterVars, guardVars, heapVars, srcDropped, initialized,
                    temp, elem, fLog, exit, result, resultHeld >>

Write_AdvanceFirst ==
    /\ pc = "write"
    /\ initialized' = initialized + 1
    /\ pc' = "incr"
    /\ UNCHANGED << callVars, iterVars, guardVars, heapVars, srcDropped, dst,
                    temp, elem, fLog, exit, result, resultHeld >>

Write ==
    /\ pc = "write"
    /\ dst' = [dst EXCEPT ![slot + 1] = Written(elem)]
    /\ pc' = "incr"
    /\ UNCHANGED << callVars, iterVars, guardVars, heapVars, srcDropped, initialized,
                    temp, elem, fLog, exit, result, resultHeld >>

\* guard.initialized += 1
Incr_Missing ==
    /\ pc = "incr"
    /\ pc' = "loop"
    /\ UNCHANGED << callVars, iterVars, guardVars, heapVars, srcDropped, dst, initialized,
                    temp, elem, fLog, exit, result, resultHeld >>

Incr_Twice ==
    /\ pc = "incr"
    /\ initialized' = initialized + 2
    /\ pc' = "loop"
    /\ UNCHANGED << callVars, iterVars, guardVars, heapVars, srcDropped, dst,
                    temp, elem, fLog, exit, result, resultHeld >>

Incr ==
    /\ pc = "incr"
    /\ initialized' = initialized + 1
    /\ pc' = "loop"
    /\ UNCHANGED << callVars, iterVars, guardVars, heapVars, srcDropped, dst,
                    temp, elem, fLog, exit, result, resultHeld >>

\* ------------------------------------------------------------ Guard::drop
\* impl Drop for Guard: the assertion, then drop_in_place on the slice
\* [dst, dst + initialized).
Guard_drop ==
    /\ assertFailed' = ~(initialized <= N)
    /\ guardRan' = TRUE
    /\ guardDropped' = GuardSlice(initialized)
    /\ uninitDropped' = UninitIn(dst, GuardSlice(initialized))
    /\ dropCount' = DropCountAfter(dropCount, dst, GuardSlice(initialized))
    /\ live' = LiveAfter(live, dst, GuardSlice(initialized))
    /\ guardAlive' = FALSE

\* The guard leaves scope: its destructor runs unless it was forgotten.
GuardScopeEnd ==
    IF guardAlive THEN Guard_drop ELSE UNCHANGED << guardVars, heapVars >>

\* ------------------------------------------------------------- early exit
\* Leaving the loop early (return or unwind) drops the zipped iterator first:
\* array::IntoIter drops the source elements it has not handed out.
DropIter ==
    /\ pc = "drop_iter"
    /\ srcDropped' = SrcDroppedAfter(srcDropped, Remaining(alive_start, N))
    /\ pc' = "drop_guard"
    /\ UNCHANGED << callVars, iterVars, guardVars, heapVars, dst, initialized,
                    temp, elem, fLog, exit, result, resultHeld >>

\* Then the guard goes out of scope, and the caller sees the Err or the unwind.
DropGuard_ErrOnly ==
    /\ pc = "drop_guard"
    /\ IF exit.kind = "Err" THEN GuardScopeEnd ELSE UNCHANGED << guardVars, heapVars >>
    /\ result' = [kind |-> exit.kind, arr |-> << >>, err |-> exit.err]
    /\ pc' = "done"
    /\ UNCHANGED << callVars, iterVars, srcDropped, dst, initialized,
                    temp, elem, fLog, exit, resultHeld >>

DropGuard ==
    /\ pc = "drop_guard"
    /\ GuardScopeEnd
    /\ result' = [kind |-> exit.kind, arr |-> << >>, err |-> exit.err]
    /\ pc' = "done"
    /\ UNCHANGED << callVars, iterVars, srcDropped, dst, initialized,
                    temp, elem, fLog, exit, resultHeld >>

\* ---------------------------------------------------------------- success
\* core::mem::forget(guard)
Forget_Missing ==
    /\ pc = "forget"
    /\ pc' = "transmute"
    /\ UNCHANGED << callVars, iterVars, guardVars, heapVars, srcDropped, dst, initialized,
                    temp, elem, fLog, exit, result, resultHeld >>

Forget ==
    /\ pc = "forget"
    /\ guardAlive' = FALSE
    /\ pc' = "transmute"
    /\ UNCHANGED << callVars, iterVars, heapVars, srcDropped, dst, initialized,
                    guardRan, guardDropped, uninitDropped, assertFailed,
                    temp, elem, fLog, exit, result, resultHeld >>

\* Ok(transmute_copy::<_, [U; N]>(&dst)): the bytes of dst become the returned
\* array, and the function's locals leave scope.
TransmuteReturn ==
    /\ pc = "transmute"
    /\ result' = [kind |-> "Ok", arr |-> dst, err |-> NoVal]
    /\ resultHeld' = TRUE
    /\ GuardScopeEnd
    /\ pc' = IF via = "map2" THEN "into_ok" ELSE "done"
    /\ UNCHANGED << callVars, iterVars, srcDropped, dst, initialized,
                    temp, elem, fLog, exit >>

\* ------------------------------------------------------------------- map2
\* self.try_map::<_, _, !>(|src| Ok(f(src))).into_ok(): the Ok is unwrapped.
IntoOk ==
    /\ pc = "into_ok"
    /\ result.kind = "Ok"
    /\ result' = [result EXCEPT !.kind = "Array"]
    /\ pc' = "done"
    /\ UNCHANGED << callVars, iterVars, guardVars, heapVars, srcDropped, dst, initialized,
                    temp, elem, fLog, exit, resultHeld >>

\* ------------------------------------------------------------- the caller
\* The caller drops the array it was given (mem::drop(res) in the tests).
CallerDrop ==
    /\ pc = "done"
    /\ resultHeld
    /\ resultHeld' = FALSE
    /\ dropCount' = DropCountAfter(dropCount, result.arr, 0..(Len(result.arr) - 1))
    /\ live' = LiveAfter(live, result.arr, 0..(Len(result.arr) - 1))
    /\ UNCHANGED << pc, callVars, iterVars, guardVars, srcDropped, dst, initialized,
                    temp, elem, fLog, exit, result >>

\* The caller goes on after the call: nothing of the call's frame is left, and
\* an array it did not drop stays with it.
CallerContinues ==
    /\ pc = "done"
    /\ pc' = "idle"
    /\ via' = "try_map"
    /\ N' = 0
    /\ source' = << >>
    /\ alive_start' = 0
    /\ dst_pos' = 0
    /\ slot' = 0
    /\ arg' = 0
    /\ srcMoved' = << >>
    /\ srcDropped' = << >>
    /\ dst' = << >>
    /\ initialized' = 0
    /\ guardAlive' = FALSE
    /\ guardRan' = FALSE
    /\ guardDropped' = {}
    /\ uninitDropped' = {}
    /\ assertFailed' = FALSE
    /\ temp' = 0
    /\ elem' = NoVal
    /\ fLog' = << >>
    /\ exit' = NoExit
    /\ result' = NoResult
    /\ resultHeld' = FALSE
    /\ dropCount' = << >>
    /\ liveAtStart' = live
    /\ UNCHANGED << live, calls >>

Next ==
    \/ \E n \in 0..MaxN : \E src \in Arrays(n) : \E v \in {"try_map", "map2"} :
          Begin(n, src, v)
    \/ LoopNext
    \/ LoopEnd
    \/ FReturnsOk
    \/ FReturnsErr
    \/ FPanics
    \/ Write
    \/ Incr
    \/ DropIter
    \/ DropGuard
    \/ Forget
    \/ TransmuteReturn
    \/ IntoOk
    \/ CallerDrop
    \/ CallerContinues

Spec == Init /\ [][Next]_vars

\* The steps of try_map / map2 themselves, f's return or panic included: a
\* call in progress runs on, synchronously, whenever it can take a step.  The
\* caller's own steps (a new call, dropping a result) are under no obligation.
CallStep ==
    \/ LoopNext
    \/ LoopEnd
    \/ FReturnsOk
    \/ FReturnsErr
    \/ FPanics
    \/ Write
    \/ Incr
    \/ DropIter
    \/ DropGuard
    \/ Forget
    \/ TransmuteReturn
    \/ IntoOk

LiveSpec == Init /\ [][Next]_vars /\ WF_vars(CallStep)

\* ======================================================================
\* Properties
\* ======================================================================
\* The call has returned to (or unwound into) the caller.
Done == pc = "done"
\* The caller was handed an array: Ok(array) from try_map, the array from map2.
Success == result.kind \in {"Ok", "Array"}
\* The invocations of f so far, and the positions in the log of those that
\* returned Err / panicked.
Invocations == Len(fLog)
ErrAt == {j \in 1..Len(fLog) : fLog[j].kind = "Err"}
PanicAt == {j \in 1..Len(fLog) : fLog[j].kind = "Panic"}
NotOkAt == {j \in 1..Len(fLog) : fLog[j].kind \in {"Err", "Panic"}}
\* The least element of a non-empty set of log positions.
First(S) == CHOOSE j \in S : \A k \in S : j <= k

\* C1: No leak on explicit failure.  When try_map has returned Err and the
\* first failure of f was at index k, each output value f produced for the
\* indices 0..k-1 has been destroyed exactly once, no other value of the call
\* was ever destroyed, and the number of live output values in the program is
\* what it was before the call.
C1_NoLeakOnErr ==
    (Done /\ result.kind = "Err") =>
        /\ ErrAt # {}
        /\ LET k == fLog[First(ErrAt)].idx
           IN  /\ \A t \in 1..k : fLog[t].kind = "Ok"
               /\ \A t \in 1..N : dropCount[t] = IF t <= k THEN 1 ELSE 0
        /\ live = liveAtStart

C1_Witness ==
    /\ Done /\ result.kind = "Err"
    /\ N = 3 /\ Invocations = 3
    /\ liveAtStart > 0

\* C2: No leak on unwind.  When f has panicked at index i (in try_map or in
\* map2) and the unwind has left the call, each output value produced for the
\* indices 0..i-1 has been destroyed exactly once by the guard, nothing else
\* was destroyed, and no output value of the call is live.
C2_NoLeakOnUnwind ==
    (Done /\ result.kind = "Unwind") =>
        /\ PanicAt # {}
        /\ LET i == fLog[First(PanicAt)].idx
           IN  /\ \A t \in 1..i : fLog[t].kind = "Ok"
               /\ \A t \in 1..N : dropCount[t] = IF t <= i THEN 1 ELSE 0
               /\ guardDropped = 0..(i - 1)
        /\ live = liveAtStart

C2_Witness ==
    /\ Done /\ result.kind = "Unwind"
    /\ via = "map2"
    /\ N = 3 /\ Invocations = 3

\* C3: No double destruction on success.  When f succeeded on all N elements,
\* the guard was disarmed and its destructor never ran, the call destroyed
\* none of the N output values, and right after the call exactly N output
\* values of the call are live, owned by the returned array.
C3_NoDropOnSuccess ==
    (Success /\ resultHeld) =>
        /\ ~guardAlive /\ ~guardRan /\ guardDropped = {}
        /\ \A t \in 1..N : dropCount[t] = 0
        /\ live = liveAtStart + N
        /\ \A i \in 1..N : result.arr[i].init

C3_Witness ==
    /\ Done /\ Success /\ resultHeld
    /\ N = 3

\* C4: Teardown touches exactly the live prefix.  When the call ended because
\* f failed or unwound at index i, the slots the guard destroyed are exactly
\* 0..i-1, none of them was uninitialized, and the source element of index i,
\* which was moved into f, was destroyed neither by the guard nor by the drop
\* of the source iterator.
C4_TeardownExactPrefix ==
    (Done /\ result.kind \in {"Err", "Unwind"}) =>
        LET i == Invocations - 1
        IN  /\ i >= 0
            /\ guardRan
            /\ guardDropped = 0..(i - 1)
            /\ uninitDropped = {}
            /\ \A s \in guardDropped : dst[s + 1].init
            /\ \A s \in i..(N - 1) : ~dst[s + 1].init
            /\ srcMoved[i + 1] = 1
            /\ srcDropped[i + 1] = 0

C4_Witness ==
    /\ Done /\ result.kind = "Unwind"
    /\ N = 3 /\ Invocations = 2
    /\ guardDropped = {0}

\* C5: Short-circuit.  f is never invoked again after an invocation that
\* returned Err; when the call has ended and the first failure was at index k,
\* f was invoked exactly k+1 times, once for each index 0..k; when every
\* invocation returned Ok, f was invoked exactly N times.
C5_ShortCircuit ==
    /\ \A j \in ErrAt : j = Invocations
    /\ (Done /\ ErrAt # {}) =>
          LET k == fLog[First(ErrAt)].idx
          IN  /\ Invocations = k + 1
              /\ temp = k + 1
              /\ \A j \in 1..Invocations : fLog[j].idx = j - 1
              /\ \A i \in 1..N : srcMoved[i] = IF i <= k + 1 THEN 1 ELSE 0
    /\ (Done /\ NotOkAt = {}) =>
          /\ Invocations = N
          /\ temp = N

C5_Witness ==
    /\ Done /\ N = 3
    /\ ErrAt = {2}

C5_WitnessAllOk ==
    /\ Done /\ N = 3
    /\ NotOkAt = {} /\ Invocations = 3

\* C6: Success correctness.  When try_map returns Ok(result), result has
\* length N and result[i] is the value f returned when it was given source[i],
\* for every i, in the order of the source.
C6_SuccessCorrect ==
    (result.kind = "Ok") =>
        /\ Len(result.arr) = N
        /\ Invocations = N
        /\ \A i \in 1..N :
              /\ result.arr[i].init
              /\ fLog[i].kind = "Ok"
              /\ fLog[i].arg = source[i]
              /\ result.arr[i].val = fLog[i].val

C6_Witness ==
    /\ Done /\ via = "try_map" /\ result.kind = "Ok"
    /\ source = << 1, 2, 3 >>
    /\ result.arr[1].val.arg = 1 /\ result.arr[3].val.arg = 3

\* C7: All-or-nothing result.  When try_map has ended, it returned Err exactly
\* when some invocation of f returned Err, and then the error is the one f
\* returned at its first failure and no array is returned; it returned Ok
\* exactly when f returned Ok for all N elements, and then every slot of the
\* returned array is initialized.
C7_AllOrNothing ==
    (Done /\ via = "try_map") =>
        /\ result.kind \in {"Ok", "Err", "Unwind"}
        /\ (result.kind = "Err") <=> (ErrAt # {})
        /\ (result.kind = "Err") =>
              /\ result.err = fLog[First(ErrAt)].val
              /\ result.arr = << >>
        /\ (result.kind = "Ok") <=>
              (Invocations = N /\ \A j \in 1..N : fLog[j].kind = "Ok")
        /\ (result.kind = "Ok") =>
              /\ Len(result.arr) = N
              /\ \A i \in 1..N : result.arr[i].init
              /\ result.err = NoVal

C7_Witness ==
    /\ Done /\ via = "try_map" /\ result.kind = "Err"
    /\ N = 3 /\ Invocations = 2
    /\ result.err = Val(source[2], 2)

\* C8: Unwind is propagated, not converted.  f is never invoked again after an
\* invocation that panicked; when the call has ended, the caller sees an
\* unwind (neither Ok nor Err nor an array) exactly when f panicked, and by
\* then the guard's teardown has run.
C8_UnwindPropagates ==
    /\ \A j \in PanicAt : j = Invocations
    /\ Done =>
          /\ (PanicAt # {}) <=> (result.kind = "Unwind")
          /\ (result.kind = "Unwind") =>
                /\ guardRan /\ ~guardAlive
                /\ result.arr = << >>
                /\ result.err = NoVal
                /\ ~resultHeld

C8_Witness ==
    /\ Done /\ result.kind = "Unwind"
    /\ via = "try_map"
    /\ N = 3 /\ PanicAt = {2}

\* The transform of map2's documented example, |v| { temp += 1; v * temp },
\* applied to a value of the model.
CounterMul(v) == v.arg * v.temp

\* C9: Index order.  Within one call the j-th invocation of f is on source
\* index j-1, so f sees the elements in the order 0, 1, 2, ..., each at most
\* once, and a value f has returned carries the state f had at that
\* invocation; with the running-counter transform, map2 of [1, 2, 3] is
\* [1, 4, 9].
C9_IndexOrder ==
    /\ Invocations <= N
    /\ \A j \in 1..Invocations :
          /\ fLog[j].idx = j - 1
          /\ fLog[j].arg = source[j]
          /\ fLog[j].kind # "Running" => fLog[j].val = Val(source[j], j)
    /\ \A i \in 1..N : srcMoved[i] <= 1
    /\ (Done /\ result.kind = "Array" /\ source = << 1, 2, 3 >>) =>
          [i \in 1..3 |-> CounterMul(result.arr[i].val)] = << 1, 4, 9 >>

C9_Witness ==
    /\ Done /\ via = "map2" /\ result.kind = "Array"
    /\ source = << 1, 2, 3 >>
    /\ Invocations = 3

\* C10: Zero length.  A call with N = 0 never invokes f and destroys nothing;
\* try_map returns Ok of an empty array and map2 an empty array.
C10_ZeroLength ==
    (N = 0 /\ calls > 0 /\ pc # "idle") =>
        /\ Invocations = 0 /\ temp = 0
        /\ pc \in {"loop", "forget", "transmute", "into_ok", "done"}
        /\ ~guardRan /\ guardDropped = {}
        /\ live = liveAtStart
        /\ Done =>
              /\ result.kind = (IF via = "map2" THEN "Array" ELSE "Ok")
              /\ result.arr = << >>

C10_Witness ==
    /\ Done /\ N = 0 /\ via = "map2"
    /\ result.kind = "Array" /\ result.arr = << >>

\* The array an always-succeeding transform yields for src: element i is the
\* value of f's i-th invocation, on src[i].
MapAll(src) == [i \in 1..Len(src) |-> Written(Val(src[i], i))]

\* C11: map2 is try_map with an always-succeeding transform.  In a map2 call
\* the failure branch of try_map is never taken; the inner try_map returns Ok
\* and into_ok hands out that same array; when f does not panic, f was invoked
\* exactly N times and element i of the array is f's value for source[i]; and
\* this is the array try_map itself returns when every invocation returns Ok.
C11_Map2IsTryMap ==
    /\ (via = "map2" /\ pc # "idle") =>
          /\ ErrAt = {} /\ exit.kind # "Err" /\ result.kind # "Err"
          /\ pc = "into_ok" => (result.kind = "Ok" /\ result.arr = MapAll(source))
          /\ (Done /\ PanicAt = {}) =>
                /\ result.kind = "Array"
                /\ Invocations = N /\ temp = N
                /\ result.arr = MapAll(source)
    /\ (via = "try_map" /\ Done /\ NotOkAt = {}) =>
          (result.kind = "Ok" /\ result.arr = MapAll(source))

C11_Witness ==
    /\ Done /\ via = "map2" /\ result.kind = "Array"
    /\ source = << 3, 1, 2 >>
    /\ result.arr = MapAll(<< 3, 1, 2 >>)

\* The slots of the output storage that hold a value.
LiveSlots == {s \in 0..(N - 1) : dst[s + 1].init}

\* C12: The result is produced only from fully initialized storage.  Whenever
\* the guard is about to be forgotten or the storage is about to be
\* reinterpreted as the returned array, initialized = N and each of the N
\* slots holds the value this call wrote for it; an array handed to the
\* caller has no uninitialized element.
C12_FullyInitialized ==
    /\ pc \in {"forget", "transmute"} =>
          /\ initialized = N
          /\ Invocations = N
          /\ \A i \in 1..N : dst[i].init /\ fLog[i].kind = "Ok" /\ dst[i].val = fLog[i].val
    /\ Success =>
          /\ Len(result.arr) = N
          /\ \A i \in 1..N : result.arr[i].init

C12_Witness ==
    /\ pc = "transmute" /\ ~guardAlive
    /\ N = 3 /\ initialized = 3
    /\ LiveSlots = {0, 1, 2}

\* C13: Write before advance.  The counter never overstates initialization:
\* in every state every slot below initialized holds a value.  When f has
\* returned Ok for index i, slot i is still empty and initialized = i; after
\* the write and before the increment slot i holds the value and initialized
\* is still i.
C13_WriteBeforeAdvance ==
    /\ \A s \in 0..(initialized - 1) : s < N /\ dst[s + 1].init
    /\ pc = "write" =>
          /\ slot = initialized
          /\ ~dst[slot + 1].init
    /\ pc = "incr" =>
          /\ slot = initialized
          /\ dst[slot + 1] = Written(elem)

C13_Witness ==
    /\ pc = "incr"
    /\ N = 3 /\ initialized = 1
    /\ LiveSlots = {0, 1}

\* C14: Live-prefix invariant.  At every invocation of f and at every start of
\* teardown the slots that hold a value are exactly 0..initialized-1; when f
\* is invoked for index i, initialized = i.
C14_LivePrefix ==
    /\ pc \in {"loop", "in_f", "drop_iter", "drop_guard", "forget"} =>
          LiveSlots = 0..(initialized - 1)
    /\ pc = "in_f" =>
          /\ fLog[Invocations].kind = "Running"
          /\ initialized = fLog[Invocations].idx
          /\ initialized = slot

C14_Witness ==
    /\ pc = "in_f"
    /\ N = 3 /\ initialized = 2
    /\ LiveSlots = {0, 1}

\* C15: Counter discipline.  initialized is 0 when the guard is created, stays
\* within 0..N, and the assertion of Guard::drop never fails; within a call it
\* changes only in the step `guard.initialized += 1`, by exactly 1, right
\* after the write of the slot it then covers, and it never decreases.
C15_CounterDiscipline ==
    /\ [](/\ 0 <= initialized /\ initialized <= N
          /\ ~assertFailed
          /\ (pc = "loop" /\ Invocations = 0) => initialized = 0)
    /\ [][(pc # "idle" /\ pc' # "idle") =>
             /\ initialized' >= initialized
             /\ initialized' # initialized =>
                   /\ pc = "incr"
                   /\ initialized' = initialized + 1
                   /\ dst[initialized + 1] = Written(elem)]_vars

C15_Witness ==
    /\ Done /\ guardRan /\ ~assertFailed
    /\ N = 3 /\ initialized = 2

\* C16 as stated: the guard's teardown has executed on every exit path of the
\* call, the success path included.
C16_TeardownOnEveryExit ==
    Done => guardRan

\* C16 (amended): the guard is in place whenever f is invoked, from the first
\* invocation on; its teardown has run, once, when the call ends by an explicit
\* failure or by an unwind; on success the guard was disarmed and its teardown
\* did not run, so no slot transferred to the returned array was destroyed.
C16_TeardownOnEarlyExit ==
    /\ pc \in {"loop", "in_f", "write", "incr", "drop_iter", "drop_guard", "forget"} =>
          (guardAlive /\ ~guardRan)
    /\ (Done /\ result.kind \in {"Err", "Unwind"}) =>
          (guardRan /\ ~guardAlive)
    /\ Success =>
          /\ ~guardRan /\ ~guardAlive
          /\ resultHeld => \A t \in 1..N : dropCount[t] = 0

C16_Witness ==
    /\ Done /\ result.kind = "Ok" /\ resultHeld
    /\ N = 2 /\ ~guardRan
    /\ calls = 2

\* C17: Source element accounting.  No source element is both moved into f and
\* dropped unprocessed, or either of them twice; when the call has ended, every
\* source element was moved into f exactly once or dropped unprocessed exactly
\* once: after a failure or unwind at index i the elements 0..i were moved
\* into f and the elements after i were dropped by the source iterator, which
\* is not the guard (the guard reaches output slots only).
C17_SourceAccounting ==
    /\ \A i \in 1..N : srcMoved[i] + srcDropped[i] <= 1
    /\ \A i \in 1..N : srcMoved[i] = (IF i <= Invocations THEN 1 ELSE 0)
    /\ pc \in {"loop", "in_f", "write", "incr", "drop_iter"} =>
          \A i \in 1..N : srcDropped[i] = 0
    /\ pc \in {"drop_guard", "forget", "transmute", "into_ok", "done"} =>
          \A i \in 1..N : srcMoved[i] + srcDropped[i] = 1
    /\ guardDropped \subseteq 0..(Invocations - 2)

C17_Witness ==
    /\ Done /\ result.kind = "Err"
    /\ N = 3 /\ Invocations = 1
    /\ srcMoved = << 1, 0, 0 >> /\ srcDropped = << 0, 1, 1 >>

\* C18: Bounded termination.  A call invokes f at most N times; provided each
\* invocation of f returns or unwinds, a call that has begun eventually ends;
\* it ends in exactly one of: success with the guard disarmed, explicit
\* failure with teardown, unwind with teardown; and the guard is gone when the
\* call has ended.
C18_BoundedTermination ==
    /\ [](/\ Invocations <= N /\ temp <= N
          /\ Done =>
                /\ result.kind \in {"Ok", "Array", "Err", "Unwind"}
                /\ guardRan <=> result.kind \in {"Err", "Unwind"}
                /\ Success <=> NotOkAt = {}
          /\ pc \in {"done", "idle"} => ~guardAlive)
    /\ (pc # "idle") ~> Done

C18_Witness ==
    /\ Done /\ result.kind = "Unwind"
    /\ N = 3 /\ Invocations = 3 /\ temp = 3
    /\ calls = 2

\* What a call hands its caller, as a function of the call's own source, the
\* method invoked, and what f did at each invocation.
Outcome(src, v, log) ==
    IF \A j \in 1..Len(log) : log[j].kind = "Ok"
    THEN [kind |-> IF v = "map2" THEN "Array" ELSE "Ok",
          arr |-> [i \in 1..Len(src) |-> Written(Val(src[i], i))],
          err |-> NoVal]
    ELSE IF log[Len(log)].kind = "Err"
         THEN [kind |-> "Err", arr |-> << >>, err |-> Val(src[Len(log)], Len(log))]
         ELSE [kind |-> "Unwind", arr |-> << >>, err |-> NoVal]

\* The output values the call itself destroys, by the same measure.
Destroyed(log) ==
    IF \A j \in 1..Len(log) : log[j].kind = "Ok" THEN {} ELSE 1..(Len(log) - 1)

\* C19: Independence of calls.  Whatever calls came before and however they
\* ended, a call starts with every slot uninitialized, initialized = 0, an
\* armed guard and nothing destroyed; and when it has ended, its result and
\* the values it has destroyed are determined by its own source and by what
\* its transform did, not by the earlier calls or by the values they left
\* alive.
C19_Independence ==
    /\ (pc = "loop" /\ Invocations = 0) =>
          /\ initialized = 0 /\ alive_start = 0 /\ dst_pos = 0
          /\ dst = [i \in 1..N |-> Uninit]
          /\ guardAlive /\ ~guardRan /\ guardDropped = {}
          /\ dropCount = Zeros(N)
          /\ live = liveAtStart
    /\ Done =>
          /\ result = Outcome(source, via, fLog)
          /\ guardDropped = {t - 1 : t \in Destroyed(fLog)}
          /\ resultHeld \/ ~Success => {t \in 1..N : dropCount[t] > 0} = Destroyed(fLog)
          /\ resultHeld \/ ~Success =>
                live - liveAtStart =
                    Cardinality({j \in 1..Invocations : fLog[j].kind = "Ok"})
                      - Cardinality(Destroyed(fLog))

C19_Witness ==
    /\ Done /\ calls = 2
    /\ liveAtStart = 3
    /\ result.kind = "Err" /\ Invocations = 3
    /\ live = 3

====
